---- MODULE Spec2Model ----
(***************************************************************************)
(* Model of the text-to-speech Telegram bot: the voice-directory cache and *)
(* the two retrying HTTP operations of voice.py (get_voices,               *)
(* synthesize_speech), the pagination helper of main.py and the update     *)
(* handlers of main.py that call them.                                     *)
(*                                                                         *)
(* Time is counted in milliseconds (time.time() and time.sleep() take      *)
(* seconds in the source: 0.5 s is 500, 600.0 s is 600000).                *)
(*                                                                         *)
(* Python values: Optional[T] is a sequence of length at most one (None is *)
(* <<>>, a present x is <<x>>); a str is a string; a dict of the directory *)
(* is a record with one Optional field per key the code reads.             *)
(***************************************************************************)
EXTENDS Integers, Sequences, FiniteSets, TLC

VARIABLES
    now,            \* time.time(), in ms
    settings,       \* get_settings(): [default_voice_id]
    cache,          \* _voices_cache: [value : Optional[list], ts]
    op,             \* the function of voice.py being executed: "none", "get_voices", "synthesize_speech"
    pc,             \* its position: "idle", "sleep", "request", "done"
    attempt,        \* the loop index of enumerate([0.0] + backoffs)
    last_err,       \* the local last_err: [exc, status]
    args,           \* the arguments of the call: [text_len, voice_id]
    result,         \* how the call ended: [kind, value, exc, msg]
    waits,          \* the time.sleep() calls of this invocation, in order
    requests,       \* the HTTP requests of this invocation
    log,            \* the log records written by the last attempt, in order
    warned,         \* the warning records this invocation has written so far
    calls,          \* invocations started so far
    fetched,        \* history: Optional[[value, t]] of the last successful directory fetch
    entry,          \* history: [now, fetched, cache] as they were when the current call began
    last_resp,      \* history: what the last HTTP attempt of this invocation came back with
    pg_voices,      \* _paginate_buttons: the list passed
    pg_page,        \* _paginate_buttons: the page index passed
    pg_out,         \* _paginate_buttons: what it returned, [buttons, total_pages]
    pg_shown,       \* the item rows of the pages walked so far, concatenated
    pg_walked,      \* how many pages, from page 0 on, have been walked
    pg_nav,         \* history: the page shown is page 0 or was reached from it by previous/next presses
    user_state,     \* _user_state: user id -> Optional[voice id] (None: no entry for the user)
    handler,        \* the handler being run and the update it was given: [name, phase, user, message, data, text_len]
    sent,           \* what the handler has sent to the chat for this update, in order
    send_as,        \* settings.send_as
    picked          \* history: user id -> Optional[voice id] of the button the user pressed last

svc_vars == <<now, settings, cache, op, pc, attempt, last_err, args, result,
              waits, requests, log, warned, calls, fetched, entry, last_resp>>
pg_vars == <<pg_voices, pg_page, pg_out, pg_shown, pg_walked, pg_nav>>
bot_vars == <<user_state, handler, sent, send_as, picked>>
vars == <<now, settings, cache, op, pc, attempt, last_err, args, result,
          waits, requests, log, warned, calls, fetched, entry, last_resp,
          pg_voices, pg_page, pg_out, pg_shown, pg_walked, pg_nav,
          user_state, handler, sent, send_as, picked>>

----------------------------------------------------------------------------
(* Bounds of the model *)

MaxCalls == 3       \* invocations of get_voices / synthesize_speech in a run
MaxServed == 2      \* calls into voice.py made by main.py in a run, the one of main_async included
MaxEpochs == 1      \* the clock is advanced between calls while now < MaxEpochs * ttl
MaxItems == 17      \* longest list handed to _paginate_buttons
MaxPage == 3        \* page indexes handed to _paginate_buttons: -MaxPage .. MaxPage

----------------------------------------------------------------------------
(* Python values *)

None == <<>>
Some(x) == <<x>>

\* bool(x) of an Optional[str]: None and "" are falsy
Truthy(x) == x # None /\ x[1] # ""

\* Python's `a or b`
PyOr(a, b) == IF Truthy(a) THEN a ELSE b

\* Python's `xs or ys` for lists: the empty list is falsy
ListOr(xs, ys) == IF xs # None /\ Len(xs[1]) > 0 THEN xs ELSE ys

Min(a, b) == IF a < b THEN a ELSE b
Max(a, b) == IF a > b THEN a ELSE b

----------------------------------------------------------------------------
(* voice.py: the cache *)

ttl == 600000

VoicesCache_new == [value |-> None, ts |-> 0]

\* faulty variants of _VoicesCache.get: a value exactly ttl old counted as
\* stale; a value that never goes stale
VoicesCache_get_strict(c, t) ==
    IF c.value = None THEN None
    ELSE IF t - c.ts >= ttl THEN None
    ELSE c.value
VoicesCache_get_forever(c, t) == c.value

\* _VoicesCache.get at time t
VoicesCache_get(c, t) ==
    IF c.value = None THEN None
    ELSE IF t - c.ts > ttl THEN None
    ELSE c.value

\* _VoicesCache.set at time t
VoicesCache_set(value, t) == [value |-> Some(value), ts |-> t]

----------------------------------------------------------------------------
(* The speech provider: what one HTTP attempt can come back with *)

\* status codes the provider answers with
Statuses == {200, 400, 404, 429, 500, 503}

\* entries of the directory's list: a JSON object with the keys the code reads,
\* or (dict = FALSE) a JSON value that is no object
Item(vid, id, name, labels) ==
    [dict |-> TRUE, voice_id |-> vid, id |-> id, name |-> name, labels |-> labels]
NotADict == [dict |-> FALSE, voice_id |-> None, id |-> None, name |-> None, labels |-> None]

ItemAlice == Item(Some("v1"), None, Some("Alice"), Some({<<"accent", "us">>}))
ItemBare == Item(None, Some("v2"), None, None)
ItemBlank == Item(Some("v3"), Some("x3"), Some(""), Some({}))
ItemTwin == Item(Some(""), Some("v1"), Some("Alice II"), None)
ItemGhost == Item(None, None, Some("Ghost"), None)
ItemMute == Item(None, Some(""), Some("Mute"), None)

\* response bodies of GET /voices: kind is "notjson" (resp.json() raises),
\* "array" (JSON, but no object) or "object" with the keys voices and data
Body(kind, voices, data) == [kind |-> kind, voices |-> voices, data |-> data]
NoBody == Body("notjson", None, None)

Bodies ==
    { NoBody,
      Body("array", None, None),
      Body("object", None, None),
      Body("object", Some(<<ItemAlice, ItemBare, ItemBlank>>), None),
      Body("object", None, Some(<<ItemBare>>)),
      Body("object", Some(<<>>), Some(<<ItemAlice>>)),
      Body("object", Some(<<ItemAlice, ItemTwin>>), None),
      Body("object", Some(<<ItemGhost>>), None),
      Body("object", Some(<<ItemMute>>), None),
      Body("object", Some(<<ItemAlice, NotADict>>), None) }

\* response bodies of POST /text-to-speech: resp.content
Contents == {"", "ID3"}

NoResponse == [kind |-> "none", status |-> 0, body |-> NoBody, content |-> ""]
TransportError == [kind |-> "transport", status |-> 0, body |-> NoBody, content |-> ""]
Response(status, body, content) ==
    [kind |-> "response", status |-> status, body |-> body, content |-> content]

\* outcomes of client.get("/voices")
VoicesOutcomes ==
    {TransportError}
    \cup {Response(s, NoBody, "") : s \in Statuses \ {200}}
    \cup {Response(200, b, "") : b \in Bodies}

\* outcomes of client.post(url, ...)
SpeechOutcomes ==
    {TransportError}
    \cup {Response(s, NoBody, "") : s \in Statuses \ {200}}
    \cup {Response(200, NoBody, c) : c \in Contents}

----------------------------------------------------------------------------
(* voice.py: get_voices *)

backoffs == <<500, 1000, 2000>>

\* faulty variant of the schedule: the leading 0.0 forgotten
schedule_shifted == backoffs

\* [0.0] + backoffs, the sequence both retry loops enumerate
schedule == <<0>> \o backoffs

NoErr == [exc |-> "none", status |-> 0]
Err(exc, status) == [exc |-> exc, status |-> status]

\* faulty variant of the fallback: the default of config.py instead of the
\* configured id
fallback_voices_hardcoded(st) ==
    << [id |-> Some("EXAVITQu4vr4xnSDxMaL"), name |-> "Default", labels |-> Some({})] >>

\* the single default voice of lines 94 and 116
fallback_voices(st) ==
    << [id |-> Some(st.default_voice_id), name |-> "Default", labels |-> Some({})] >>

\* the dict built at lines 87-91 from one directory entry
normalize(v) ==
    [id |-> PyOr(v.voice_id, v.id),
     name |-> PyOr(v.name, Some("Unnamed"))[1],
     labels |-> IF v.labels # None /\ v.labels[1] # {} THEN v.labels ELSE None]

\* faulty variant of the try block: an empty directory is returned as it is
get_voices_try_no_fallback(resp, st) ==
    IF resp.kind = "transport" THEN [exc |-> "HTTPError", status |-> 0, voices |-> <<>>]
    ELSE IF resp.status = 429 THEN [exc |-> "RateLimitError", status |-> 0, voices |-> <<>>]
    ELSE IF resp.status >= 400 /\ resp.status <= 599
        THEN [exc |-> "HTTPStatusError", status |-> resp.status, voices |-> <<>>]
    ELSE IF resp.body.kind = "notjson"
        THEN [exc |-> "JSONDecodeError", status |-> 0, voices |-> <<>>]
    ELSE IF resp.body.kind # "object"
        THEN [exc |-> "AttributeError", status |-> 0, voices |-> <<>>]
    ELSE LET items == ListOr(ListOr(resp.body.voices, resp.body.data), Some(<<>>))[1]
         IN  IF \E i \in 1..Len(items) : ~items[i].dict
                 THEN [exc |-> "AttributeError", status |-> 0, voices |-> <<>>]
             ELSE [exc |-> "none", status |-> 0,
                   voices |-> [i \in 1..Len(items) |-> normalize(items[i])]]

\* the try block, lines 77-97: the exception it raises ("none": it returns
\* voices), with the status an HTTPStatusError carries
get_voices_try(resp, st) ==
    IF resp.kind = "transport" THEN [exc |-> "HTTPError", status |-> 0, voices |-> <<>>]
    ELSE IF resp.status = 429 THEN [exc |-> "RateLimitError", status |-> 0, voices |-> <<>>]
    ELSE IF resp.status >= 400 /\ resp.status <= 599
        THEN [exc |-> "HTTPStatusError", status |-> resp.status, voices |-> <<>>]
    ELSE IF resp.body.kind = "notjson"
        THEN [exc |-> "JSONDecodeError", status |-> 0, voices |-> <<>>]
    ELSE IF resp.body.kind # "object"
        THEN [exc |-> "AttributeError", status |-> 0, voices |-> <<>>]
    ELSE LET items == ListOr(ListOr(resp.body.voices, resp.body.data), Some(<<>>))[1]
         IN  IF \E i \in 1..Len(items) : ~items[i].dict
                 THEN [exc |-> "AttributeError", status |-> 0, voices |-> <<>>]
             ELSE LET voices == [i \in 1..Len(items) |-> normalize(items[i])]
                  IN  [exc |-> "none", status |-> 0,
                       voices |-> IF Len(voices) = 0 THEN fallback_voices(st) ELSE voices]

\* faulty variant of the except clauses of get_voices: every HTTPStatusError
\* retried
get_voices_except_retry_all(r) ==
    IF r.exc = "RateLimitError"
        THEN [then |-> "next", warn |-> Some("Rate limited")]
    ELSE IF r.exc = "HTTPStatusError"
        THEN [then |-> "next", warn |-> Some("5xx")]
    ELSE IF r.exc = "HTTPError"
        THEN [then |-> "next", warn |-> Some("HTTP error")]
    ELSE [then |-> "propagate", warn |-> None]

\* the except clauses, lines 98-112: what the loop does with the exception
\* ("next": falls through or continues to the next iteration; "break";
\* "propagate": no clause matches) and the warning it logs
get_voices_except(r) ==
    IF r.exc = "RateLimitError"
        THEN [then |-> "next", warn |-> Some("Rate limited")]
    ELSE IF r.exc = "HTTPStatusError"
        THEN IF 500 <= r.status /\ r.status < 600
                 THEN [then |-> "next", warn |-> Some("5xx")]
             ELSE [then |-> "break", warn |-> None]
    ELSE IF r.exc = "HTTPError"
        THEN [then |-> "next", warn |-> Some("HTTP error")]
    ELSE [then |-> "propagate", warn |-> None]

\* the locals of an invocation before it has begun
NoArgs == [text_len |-> 0, voice_id |-> ""]
NoEntry == [now |-> 0, fetched |-> None, cache |-> VoicesCache_new]

\* how a call ends
NoResult == [kind |-> "none", value |-> <<>>, exc |-> "", msg |-> ""]
Return(v) == [kind |-> "return", value |-> v, exc |-> "", msg |-> ""]
Raise(exc, msg) == [kind |-> "raise", value |-> <<>>, exc |-> exc, msg |-> msg]

LogRec(level, msg, n) == [level |-> level, msg |-> msg, n |-> n]
WarnLog(w, n) == IF w = None THEN <<>> ELSE <<LogRec("warning", w[1], n)>>
WarnCount(w) == IF w = None THEN 0 ELSE 1

\* lines 61-72: the cache lookup; on a miss the retry loop is entered
get_voices_enter ==
    /\ pc = "idle"
    /\ calls < MaxCalls
    /\ calls' = calls + 1
    /\ op' = "get_voices"
    /\ args' = NoArgs
    /\ entry' = [now |-> now, fetched |-> fetched, cache |-> cache]
    /\ last_resp' = NoResponse
    /\ attempt' = 0
    /\ last_err' = NoErr
    /\ waits' = <<>>
    /\ requests' = 0
    /\ log' = <<>>
    /\ warned' = 0
    /\ LET cached == VoicesCache_get(cache, now)
       IN  IF cached # None
               THEN /\ result' = Return(cached[1])
                    /\ pc' = "done"
               ELSE /\ result' = NoResult
                    /\ pc' = "sleep"
    /\ UNCHANGED <<now, settings, cache, fetched>>

\* get_voices called on its own
get_voices_begin ==
    /\ get_voices_enter
    /\ UNCHANGED pg_vars
    /\ UNCHANGED bot_vars

\* lines 74-75: if backoff: time.sleep(backoff)
get_voices_sleep ==
    /\ op = "get_voices"
    /\ pc = "sleep"
    /\ LET backoff == schedule[attempt + 1]
       IN  IF backoff # 0
               THEN /\ now' = now + backoff
                    /\ waits' = Append(waits, backoff)
               ELSE UNCHANGED <<now, waits>>
    /\ pc' = "request"
    /\ UNCHANGED <<settings, cache, op, attempt, last_err, args, result, requests,
                   log, warned, calls, fetched, entry, last_resp>>
    /\ UNCHANGED pg_vars
    /\ UNCHANGED bot_vars

\* lines 76-116: one request and what follows it: the return on success, the
\* except clause, and after the last iteration or a break the fallback
get_voices_attempt ==
    /\ op = "get_voices"
    /\ pc = "request"
    /\ \E resp \in VoicesOutcomes :
        LET r == get_voices_try(resp, settings)
            h == get_voices_except(r)
        IN  /\ requests' = requests + 1
            /\ last_resp' = resp
            /\ IF r.exc = "none"
                   THEN /\ cache' = VoicesCache_set(r.voices, now)
                        /\ fetched' = Some([value |-> r.voices, t |-> now])
                        /\ log' = <<LogRec("info", "loaded", Len(r.voices))>>
                        /\ UNCHANGED warned
                        /\ result' = Return(r.voices)
                        /\ pc' = "done"
                        /\ UNCHANGED <<attempt, last_err>>
               ELSE IF h.then = "propagate"
                   THEN /\ result' = Raise(r.exc, "")
                        /\ pc' = "done"
                        /\ log' = <<>>
                        /\ UNCHANGED <<cache, fetched, attempt, last_err, warned>>
               ELSE /\ last_err' = Err(r.exc, r.status)
                    /\ warned' = warned + WarnCount(h.warn)
                    /\ UNCHANGED <<cache, fetched>>
                    /\ IF h.then = "next" /\ attempt + 1 < Len(schedule)
                           THEN /\ attempt' = attempt + 1
                                /\ log' = WarnLog(h.warn, attempt)
                                /\ result' = NoResult
                                /\ pc' = "sleep"
                           ELSE /\ log' = WarnLog(h.warn, attempt)
                                           \o <<LogRec("error", "get_voices failed", 0)>>
                                /\ result' = Return(fallback_voices(settings))
                                /\ pc' = "done"
                                /\ UNCHANGED attempt
    /\ UNCHANGED <<now, settings, op, args, waits, calls, entry>>
    /\ UNCHANGED pg_vars
    /\ UNCHANGED bot_vars

----------------------------------------------------------------------------
(* voice.py: synthesize_speech *)

MaxTextLen == 5000

\* the texts handed to synthesize_speech, by their length
TextLens == {0, 1, MaxTextLen, MaxTextLen + 1}
VoiceIds == {"v1", "v2"}

GenericMessage == "could not generate audio, try again later"

\* faulty variant of the validation: a text of exactly 5000 characters refused
synthesize_speech_validate_strict(text_len) ==
    IF text_len = 0 THEN Some([kind |-> "raise", value |-> <<>>,
                               exc |-> "InvalidInputError", msg |-> "empty text"])
    ELSE IF text_len >= MaxTextLen
        THEN Some([kind |-> "raise", value |-> <<>>,
                   exc |-> "InvalidInputError", msg |-> "text too long (>5000)"])
    ELSE None

\* lines 123-126: the exception the validation raises, None when the text passes
synthesize_speech_validate(text_len) ==
    IF text_len = 0 THEN Some(Raise("InvalidInputError", "empty text"))
    ELSE IF text_len > MaxTextLen THEN Some(Raise("InvalidInputError", "text too long (>5000)"))
    ELSE None

\* the try block, lines 150-158: the exception it raises ("none": it returns
\* content)
synthesize_speech_try(resp) ==
    IF resp.kind = "transport" THEN [exc |-> "HTTPError", status |-> 0, content |-> ""]
    ELSE IF resp.status = 429 THEN [exc |-> "RateLimitError", status |-> 0, content |-> ""]
    ELSE IF resp.status >= 400 /\ resp.status <= 599
        THEN [exc |-> "HTTPStatusError", status |-> resp.status, content |-> ""]
    ELSE [exc |-> "none", status |-> 0, content |-> resp.content]

\* faulty variant of the except clauses of synthesize_speech: 429 treated as
\* the other 4xx
synthesize_speech_except_429_final(r) ==
    IF r.exc = "RateLimitError"
        THEN [then |-> "break", warn |-> Some("Rate limited")]
    ELSE IF r.exc = "HTTPStatusError"
        THEN IF 500 <= r.status /\ r.status < 600
                 THEN [then |-> "next", warn |-> Some("5xx")]
             ELSE [then |-> "break", warn |-> None]
    ELSE IF r.exc = "HTTPError"
        THEN [then |-> "next", warn |-> Some("HTTP error")]
    ELSE [then |-> "propagate", warn |-> None]

\* the except clauses, lines 159-174
synthesize_speech_except(r) ==
    IF r.exc = "RateLimitError"
        THEN [then |-> "next", warn |-> Some("Rate limited")]
    ELSE IF r.exc = "HTTPStatusError"
        THEN IF 500 <= r.status /\ r.status < 600
                 THEN [then |-> "next", warn |-> Some("5xx")]
             ELSE [then |-> "break", warn |-> None]
    ELSE IF r.exc = "HTTPError"
        THEN [then |-> "next", warn |-> Some("HTTP error")]
    ELSE [then |-> "propagate", warn |-> None]

\* faulty variant of the final error: the last underlying error re-raised
synthesize_speech_fail_leaky(err) ==
    [kind |-> "raise", value |-> <<>>, exc |-> err.exc, msg |-> GenericMessage]

\* line 177: what is raised after the loop
synthesize_speech_fail(err) == Raise("VoiceServiceError", GenericMessage)

\* lines 119-144: the validation; a valid text enters the retry loop
synthesize_speech_enter(n, v) ==
    /\ pc = "idle"
    /\ calls < MaxCalls
    /\ calls' = calls + 1
    /\ op' = "synthesize_speech"
    /\ entry' = [now |-> now, fetched |-> fetched, cache |-> cache]
    /\ last_resp' = NoResponse
    /\ attempt' = 0
    /\ last_err' = NoErr
    /\ waits' = <<>>
    /\ requests' = 0
    /\ log' = <<>>
    /\ warned' = 0
    /\ args' = [text_len |-> n, voice_id |-> v]
    /\ LET invalid == synthesize_speech_validate(n)
       IN  IF invalid # None
               THEN /\ result' = invalid[1]
                    /\ pc' = "done"
               ELSE /\ result' = NoResult
                    /\ pc' = "sleep"
    /\ UNCHANGED <<now, settings, cache, fetched>>

\* synthesize_speech called on its own, with any text and voice id
synthesize_speech_begin ==
    /\ \E n \in TextLens, v \in VoiceIds : synthesize_speech_enter(n, v)
    /\ UNCHANGED pg_vars
    /\ UNCHANGED bot_vars

\* lines 147-148: if backoff: time.sleep(backoff)
synthesize_speech_sleep ==
    /\ op = "synthesize_speech"
    /\ pc = "sleep"
    /\ LET backoff == schedule[attempt + 1]
       IN  IF backoff # 0
               THEN /\ now' = now + backoff
                    /\ waits' = Append(waits, backoff)
               ELSE UNCHANGED <<now, waits>>
    /\ pc' = "request"
    /\ UNCHANGED <<settings, cache, op, attempt, last_err, args, result, requests,
                   log, warned, calls, fetched, entry, last_resp>>
    /\ UNCHANGED pg_vars
    /\ UNCHANGED bot_vars

\* lines 149-177: one request and what follows it: the return on success, the
\* except clause, and after the last iteration or a break the final error
synthesize_speech_attempt ==
    /\ op = "synthesize_speech"
    /\ pc = "request"
    /\ \E resp \in SpeechOutcomes :
        LET r == synthesize_speech_try(resp)
            h == synthesize_speech_except(r)
        IN  /\ requests' = requests + 1
            /\ last_resp' = resp
            /\ IF r.exc = "none"
                   THEN /\ log' = <<LogRec("info", "synthesized", Len(r.content))>>
                        /\ UNCHANGED warned
                        /\ result' = Return(r.content)
                        /\ pc' = "done"
                        /\ UNCHANGED <<attempt, last_err>>
               ELSE IF h.then = "propagate"
                   THEN /\ result' = Raise(r.exc, "")
                        /\ pc' = "done"
                        /\ log' = <<>>
                        /\ UNCHANGED <<attempt, last_err, warned>>
               ELSE /\ last_err' = Err(r.exc, r.status)
                    /\ warned' = warned + WarnCount(h.warn)
                    /\ IF h.then = "next" /\ attempt + 1 < Len(schedule)
                           THEN /\ attempt' = attempt + 1
                                /\ log' = WarnLog(h.warn, attempt)
                                /\ result' = NoResult
                                /\ pc' = "sleep"
                           ELSE /\ log' = WarnLog(h.warn, attempt)
                                           \o <<LogRec("error", "synthesis failed", 0)>>
                                /\ result' = synthesize_speech_fail(last_err')
                                /\ pc' = "done"
                                /\ UNCHANGED attempt
    /\ UNCHANGED <<now, settings, cache, op, args, waits, calls, fetched, entry>>
    /\ UNCHANGED pg_vars
    /\ UNCHANGED bot_vars

----------------------------------------------------------------------------
(* The caller takes the result: the locals of the invocation are gone *)

\* the return to the caller

Leave ==
    /\ pc = "done"
    /\ pc' = "idle"
    /\ op' = "none"
    /\ attempt' = 0
    /\ last_err' = NoErr
    /\ args' = NoArgs
    /\ result' = NoResult
    /\ waits' = <<>>
    /\ requests' = 0
    /\ log' = <<>>
    /\ warned' = 0
    /\ entry' = NoEntry
    /\ last_resp' = NoResponse
    /\ UNCHANGED <<now, settings, cache, calls, fetched>>

Finish ==
    /\ Leave
    /\ UNCHANGED pg_vars
    /\ UNCHANGED bot_vars

----------------------------------------------------------------------------
(* The clock between calls *)

\* how far the clock moves between two calls: to the last instant of the
\* freshness window, or just past it
Advances == {ttl, ttl + 1}

Tick ==
    /\ pc = "idle"
    /\ now < MaxEpochs * ttl
    /\ \E d \in Advances : now' = now + d
    /\ UNCHANGED <<settings, cache, op, pc, attempt, last_err, args, result,
                   waits, requests, log, warned, calls, fetched, entry, last_resp>>
    /\ UNCHANGED pg_vars
    /\ UNCHANGED bot_vars

----------------------------------------------------------------------------
(* The service: get_voices and synthesize_speech called one after another *)

\* DEFAULT_VOICE_ID of the environment (the first is the default of config.py)
DefaultVoiceIds == {"EXAVITQu4vr4xnSDxMaL", "v1"}

\* the users that write to the bot
Users == {1, 2}

\* no update is being handled
NoHandler == [name |-> "none", phase |-> "idle", user |-> 0, message |-> FALSE,
              data |-> "", text_len |-> 0]

\* the dispatcher before any update (line 24: _user_state = {})
BotIdle ==
    /\ user_state = [u \in Users |-> None]
    /\ handler = NoHandler
    /\ sent = <<>>
    /\ send_as = "voice"
    /\ picked = [u \in Users |-> None]

PgIdle ==
    /\ pg_voices = <<>>
    /\ pg_page = 0
    /\ pg_out = None
    /\ pg_shown = <<>>
    /\ pg_walked = 0
    /\ pg_nav = FALSE

SvcInit ==
    /\ now = 0
    /\ settings \in {[default_voice_id |-> d] : d \in DefaultVoiceIds}
    /\ cache = VoicesCache_new
    /\ op = "none"
    /\ pc = "idle"
    /\ attempt = 0
    /\ last_err = NoErr
    /\ args = NoArgs
    /\ result = NoResult
    /\ waits = <<>>
    /\ requests = 0
    /\ log = <<>>
    /\ warned = 0
    /\ calls = 0
    /\ fetched = None
    /\ entry = NoEntry
    /\ last_resp = NoResponse

Init == SvcInit /\ PgIdle /\ BotIdle

Next ==
    \/ get_voices_begin
    \/ get_voices_sleep
    \/ get_voices_attempt
    \/ synthesize_speech_begin
    \/ synthesize_speech_sleep
    \/ synthesize_speech_attempt
    \/ Finish
    \/ Tick

Spec == Init /\ [][Next]_vars

----------------------------------------------------------------------------
(* main.py: _paginate_buttons *)

page_size == 8

\* Python's xs[start:end] for a list, negative indexes counted from the end
PySlice(xs, start, end) ==
    LET n == Len(xs)
        clamp(i) == IF i < 0 THEN Max(n + i, 0) ELSE Min(i, n)
        lo == clamp(start)
        hi == clamp(end)
    IN  IF lo < hi THEN SubSeq(xs, lo + 1, hi) ELSE <<>>

\* str(x) in an f-string, of an Optional[str]
PyStr(x) == IF x = None THEN "None" ELSE x[1]

InlineKeyboardButton(text, callback_data) == [text |-> text, callback_data |-> callback_data]

\* lines 32-34: the row of one voice
voice_row(v) ==
    << InlineKeyboardButton(PyOr(Some(v.name), v.id), <<"pick", PyStr(v.id)>>) >>

\* faulty variant of the navigation row: "next" offered on the last page too
nav_row_past_end(page, total_pages) ==
    (IF page > 0 THEN <<InlineKeyboardButton(Some("prev"), <<"page", page - 1>>)>> ELSE <<>>)
    \o (IF page + 1 <= total_pages
            THEN <<InlineKeyboardButton(Some("next"), <<"page", page + 1>>)>> ELSE <<>>)
    \o <<InlineKeyboardButton(Some("refresh"), <<"refresh">>)>>

\* lines 36-43: the navigation row
nav_row(page, total_pages) ==
    (IF page > 0 THEN <<InlineKeyboardButton(Some("prev"), <<"page", page - 1>>)>> ELSE <<>>)
    \o (IF page + 1 < total_pages
            THEN <<InlineKeyboardButton(Some("next"), <<"page", page + 1>>)>> ELSE <<>>)
    \o <<InlineKeyboardButton(Some("refresh"), <<"refresh">>)>>

\* faulty variant of _paginate_buttons: total_pages as len // page_size + 1
paginate_buttons_extra_page(voices, page, size) ==
    LET start == page * size
        end == start + size
        page_voices == PySlice(voices, start, end)
        total_pages == Len(voices) \div size + 1
    IN  [buttons |-> [i \in 1..Len(page_voices) |-> voice_row(page_voices[i])]
                     \o <<nav_row(page, total_pages)>>,
         total_pages |-> total_pages]

\* _paginate_buttons(voices, page, page_size)
paginate_buttons(voices, page, size) ==
    LET start == page * size
        end == start + size
        page_voices == PySlice(voices, start, end)
        total_pages == Max(1, (Len(voices) + size - 1) \div size)
    IN  [buttons |-> [i \in 1..Len(page_voices) |-> voice_row(page_voices[i])]
                     \o <<nav_row(page, total_pages)>>,
         total_pages |-> total_pages]

\* the rows of a result before its navigation row
item_rows(out) == SubSeq(out.buttons, 1, Len(out.buttons) - 1)

\* the f-strings of lines 34, 39 and 41: the callback_data as it is sent
callback_text(cb) ==
    IF cb[1] = "pick" THEN "pick:" \o cb[2]
    ELSE IF cb[1] = "page" THEN "page:" \o ToString(cb[2])
    ELSE "refresh"

\* data.startswith(prefix)
StartsWith(data, prefix) ==
    Len(data) >= Len(prefix) /\ SubSeq(data, 1, Len(prefix)) = prefix

\* data.split(":", 1)[1], of a string that holds a colon
AfterColon(data) ==
    LET i == CHOOSE k \in 1..Len(data) :
                 /\ SubSeq(data, k, k) = ":"
                 /\ \A j \in 1..(k - 1) : SubSeq(data, j, j) # ":"
    IN  SubSeq(data, i + 1, Len(data))

\* int(s), of the decimal strings a page button carries
PyInt(s) == CHOOSE k \in (0 - MaxPage - 2)..(MaxPage + 2) : ToString(k) = s

\* _paginate_buttons called with any page index (cmd_start and refresh pass 0)
paginate_any ==
    /\ \E p \in (0 - MaxPage)..MaxPage :
        /\ pg_page' = p
        /\ pg_out' = Some(paginate_buttons(pg_voices, p, page_size))
        /\ pg_nav' = (p = 0)
    /\ UNCHANGED <<pg_voices, pg_shown, pg_walked>>
    /\ UNCHANGED svc_vars
    /\ UNCHANGED bot_vars

\* _paginate_buttons called with the page after the last one walked, while
\* there is one: pages 0 .. total_pages-1 in order
paginate_walk ==
    /\ pg_walked = 0 \/ (pg_out # None /\ pg_walked < pg_out[1].total_pages)
    /\ LET out == paginate_buttons(pg_voices, pg_walked, page_size)
       IN  /\ pg_page' = pg_walked
           /\ pg_out' = Some(out)
           /\ pg_shown' = pg_shown \o item_rows(out)
    /\ pg_walked' = pg_walked + 1
    /\ pg_nav' = (pg_walked = 0)
    /\ UNCHANGED pg_voices
    /\ UNCHANGED svc_vars
    /\ UNCHANGED bot_vars

\* on_callback, lines 74-79, on the press of a previous/next button of the
\* page shown: the page index is read back from the callback_data
paginate_press ==
    /\ pg_out # None
    /\ LET nav == pg_out[1].buttons[Len(pg_out[1].buttons)]
       IN  \E b \in 1..Len(nav) :
               LET data == callback_text(nav[b].callback_data)
               IN  /\ StartsWith(data, "page:")
                   /\ LET page == PyInt(AfterColon(data))
                      IN  /\ pg_page' = page
                          /\ pg_out' = Some(paginate_buttons(pg_voices, page, page_size))
    /\ UNCHANGED <<pg_voices, pg_shown, pg_walked, pg_nav>>
    /\ UNCHANGED svc_vars
    /\ UNCHANGED bot_vars

\* the lists handed to _paginate_buttons: n voices, some of them without a name
ListedVoice(i) ==
    [id |-> Some(ToString(i)),
     name |-> IF i % 3 = 0 THEN "" ELSE ToString(100 + i),
     labels |-> None]
VoiceList(n) == [i \in 1..n |-> ListedVoice(i)]

PagInit ==
    /\ SvcInit
    /\ pg_voices \in {VoiceList(n) : n \in 0..MaxItems}
    /\ pg_page = 0
    /\ pg_out = None
    /\ pg_shown = <<>>
    /\ pg_walked = 0
    /\ pg_nav = FALSE
    /\ BotIdle

PagNext == paginate_any \/ paginate_walk \/ paginate_press

PagSpec == PagInit /\ [][PagNext]_vars

----------------------------------------------------------------------------
(* main.py: the update handlers *)

\* the texts the handlers send
ChooseMessage == "choose a voice"
HelpMessage == "send a text or use /voice"
ChosenMessage == "voice chosen, now send a text"
OverloadedMessage == "service overloaded, try again later"
SendFailedMessage == "could not send the audio, try again later"

\* one call of the Bot API made for the update: its method, its text or file
\* name, its inline keyboard and the audio bytes it carries
Message(kind, text, buttons, bytes) ==
    [kind |-> kind, text |-> text, buttons |-> buttons, bytes |-> bytes]
reply_text(text) == Message("text", text, <<>>, "")

\* the exception classes of voice.py, lines 16-25: except VoiceServiceError
\* catches its subclasses too
IsVoiceServiceError(exc) ==
    exc \in {"VoiceServiceError", "RateLimitError", "InvalidInputError"}

\* line 104: the voice id a text of the user is synthesized with
resolve_voice(state, user_id, st) ==
    PyOr(state[user_id], Some(st.default_voice_id))[1]

\* faulty variant of the except clauses of on_text: the base class first
on_text_except_base_first(r) ==
    IF IsVoiceServiceError(r.exc) THEN Some(OverloadedMessage)
    ELSE IF r.exc = "InvalidInputError" THEN Some(r.msg)
    ELSE None

\* the except clauses of on_text, lines 108-115: the text replied, None when
\* no clause matches
on_text_except(r) ==
    IF r.exc = "InvalidInputError" THEN Some(r.msg)
    ELSE IF IsVoiceServiceError(r.exc) THEN Some(OverloadedMessage)
    ELSE None

\* lines 117-141: what reaches the chat when the audio is sent. try_sent is
\* how many of the two sends of the try block succeed, again_sent how many of
\* the two of the fallback (consulted only when the try block raised).
on_text_deliver(as, bytes, voice_id, text_len, try_sent, again_sent) ==
    LET first == IF as = "voice" THEN Message("voice", "", <<>>, bytes)
                 ELSE Message("audio", "tts.mp3", <<>>, bytes)
        audio == Message("audio", "tts.mp3", <<>>, bytes)
        document == Message("document",
                            "tts_" \o voice_id \o "_" \o ToString(text_len) \o ".mp3",
                            <<>>, bytes)
    IN  IF try_sent = 2 THEN <<first, document>>
        ELSE SubSeq(<<first>>, 1, try_sent)
             \o (IF again_sent = 2 THEN <<audio, document>>
                 ELSE SubSeq(<<audio>>, 1, again_sent) \o <<reply_text(SendFailedMessage)>>)

\* the voice ids on the buttons of a keyboard made from these directory entries
PickIds == {PyStr(normalize(it).id) : it \in {ItemBare, ItemMute}}

\* the callback_data of the buttons a user can press
Callbacks ==
    {<<"pick", i>> : i \in PickIds} \cup {<<"page", n>> : n \in 0..1} \cup {<<"refresh">>}

\* the update a handler is given
Update(name, phase, user, message, data, text_len) ==
    [name |-> name, phase |-> phase, user |-> user, message |-> message,
     data |-> data, text_len |-> text_len]

\* main_async, lines 146-162: the handlers are registered, the directory is
\* loaded once
main_async_begin ==
    /\ handler.phase = "boot"
    /\ handler' = [handler EXCEPT !.phase = "calling"]
    /\ get_voices_enter
    /\ UNCHANGED <<user_state, sent, send_as, picked>>
    /\ UNCHANGED pg_vars

\* lines 162-167: polling starts when get_voices has returned; an exception
\* leaves main_async and ends the program
main_async_end ==
    /\ handler.name = "main_async"
    /\ handler.phase = "calling"
    /\ pc = "done"
    /\ handler' = [handler EXCEPT
                       !.phase = IF result.kind = "return" THEN "done" ELSE "crashed"]
    /\ UNCHANGED <<user_state, sent, send_as, picked>>
    /\ UNCHANGED svc_vars
    /\ UNCHANGED pg_vars

\* cmd_start (and cmd_voice, which calls it), line 48: get_voices is called.
\* A handler starts only when none is running: the handlers are coroutines of
\* one event loop, and the calls into voice.py are synchronous.
cmd_start_begin ==
    /\ handler.phase = "idle"
    /\ calls < MaxServed
    /\ \E u \in Users, m \in BOOLEAN :
           handler' = Update("cmd_start", "calling", u, m, "", 0)
    /\ get_voices_enter
    /\ sent' = <<>>
    /\ UNCHANGED <<user_state, send_as, picked>>
    /\ UNCHANGED pg_vars

\* lines 49-54: the first page of the keyboard is sent
cmd_start_end ==
    /\ handler.name = "cmd_start"
    /\ handler.phase = "calling"
    /\ pc = "done"
    /\ handler' = [handler EXCEPT !.phase = "done"]
    /\ sent' = IF result.kind = "return" /\ handler.message
                   THEN <<Message("text", ChooseMessage,
                                  paginate_buttons(result.value, 0, page_size).buttons, "")>>
               ELSE <<>>
    /\ UNCHANGED <<user_state, send_as, picked>>
    /\ UNCHANGED svc_vars
    /\ UNCHANGED pg_vars

\* cmd_help, lines 61-65
cmd_help ==
    /\ handler.phase = "idle"
    /\ \E u \in Users, m \in BOOLEAN :
        /\ handler' = Update("cmd_help", "done", u, m, "", 0)
        /\ sent' = IF m THEN <<reply_text(HelpMessage)>> ELSE <<>>
    /\ UNCHANGED <<user_state, send_as, picked>>
    /\ UNCHANGED svc_vars
    /\ UNCHANGED pg_vars

\* on_callback, lines 68-96, up to its call of get_voices, or to its end when
\* it calls nothing: query is the callback_data of the pressed button, None
\* when the query carries none
on_callback_begin ==
    /\ handler.phase = "idle"
    /\ \E u \in Users, query \in {None} \cup {Some(cb) : cb \in Callbacks} :
        LET data == PyOr(IF query = None THEN None ELSE Some(callback_text(query[1])),
                         Some(""))[1]
            answer == Message("answer", "", <<>>, "")
        IN  /\ picked' = IF query # None /\ query[1][1] = "pick"
                             THEN [picked EXCEPT ![u] = Some(query[1][2])]
                         ELSE picked
            /\ IF StartsWith(data, "page:") \/ data = "refresh"
                   THEN /\ calls < MaxServed
                        /\ handler' = Update("on_callback", "calling", u, TRUE, data, 0)
                        /\ get_voices_enter
                        /\ sent' = <<answer>>
                        /\ UNCHANGED user_state
               ELSE IF StartsWith(data, "pick:")
                   THEN /\ handler' = Update("on_callback", "done", u, TRUE, data, 0)
                        /\ user_state' = [user_state EXCEPT ![u] = Some(AfterColon(data))]
                        /\ sent' = <<answer, Message("edit_text", ChosenMessage, <<>>, "")>>
                        /\ UNCHANGED svc_vars
               ELSE /\ handler' = Update("on_callback", "done", u, TRUE, data, 0)
                    /\ sent' = <<answer>>
                    /\ UNCHANGED user_state
                    /\ UNCHANGED svc_vars
    /\ UNCHANGED send_as
    /\ UNCHANGED pg_vars

\* lines 77-79 and 83-89: the keyboard of the page asked for replaces the one
\* shown, unless the edit is refused
on_callback_end ==
    /\ handler.name = "on_callback"
    /\ handler.phase = "calling"
    /\ pc = "done"
    /\ handler' = [handler EXCEPT !.phase = "done"]
    /\ \E edited \in BOOLEAN :
        LET page == IF handler.data = "refresh" THEN 0
                    ELSE PyInt(AfterColon(handler.data))
        IN  sent' = IF result.kind = "return" /\ edited
                        THEN Append(sent,
                                 Message("edit_markup", "",
                                         paginate_buttons(result.value, page, page_size).buttons,
                                         ""))
                    ELSE sent
    /\ UNCHANGED <<user_state, send_as, picked>>
    /\ UNCHANGED svc_vars
    /\ UNCHANGED pg_vars

\* on_text, lines 99-107: the voice is resolved and synthesize_speech called
on_text_begin ==
    /\ handler.phase = "idle"
    /\ \E u \in Users, m \in BOOLEAN, n \in TextLens :
        /\ m \/ n = 0
        /\ calls < MaxServed
        /\ handler' = Update("on_text", "calling", u, m, "", n)
        /\ synthesize_speech_enter(n, resolve_voice(user_state, u, settings))
    /\ sent' = <<>>
    /\ UNCHANGED <<user_state, send_as, picked>>
    /\ UNCHANGED pg_vars

\* lines 108-143: the error reply, or the audio and the pause of 0.05 s
on_text_end ==
    /\ handler.name = "on_text"
    /\ handler.phase = "calling"
    /\ pc = "done"
    /\ handler' = [handler EXCEPT !.phase = "done"]
    /\ IF result.kind = "raise"
           THEN /\ sent' = IF handler.message /\ on_text_except(result) # None
                               THEN <<reply_text(on_text_except(result)[1])>>
                           ELSE <<>>
                /\ UNCHANGED now
           ELSE /\ \E try_sent, again_sent \in 0..2 :
                       sent' = IF handler.message
                                   THEN on_text_deliver(send_as, result.value, args.voice_id,
                                                        args.text_len, try_sent, again_sent)
                               ELSE <<>>
                /\ now' = now + 50
    /\ UNCHANGED <<settings, cache, op, pc, attempt, last_err, args, result,
                   waits, requests, log, warned, calls, fetched, entry, last_resp>>
    /\ UNCHANGED <<user_state, send_as, picked>>
    /\ UNCHANGED pg_vars

\* the handler returns and the next update can be taken
handler_return ==
    /\ handler.phase = "done"
    /\ handler' = NoHandler
    /\ sent' = <<>>
    /\ IF pc = "done" THEN Leave ELSE UNCHANGED svc_vars
    /\ UNCHANGED <<user_state, send_as, picked>>
    /\ UNCHANGED pg_vars

\* the updates whose handling may start
Dispatch ==
    \/ cmd_start_begin
    \/ cmd_help
    \/ on_callback_begin
    \/ on_text_begin

\* the configurations the bot is run with: DEFAULT_VOICE_ID and SEND_AS
BotConfigs == {<<"EXAVITQu4vr4xnSDxMaL", "voice">>, <<"v1", "audio">>}

BotInit ==
    /\ SvcInit
    /\ PgIdle
    /\ user_state = [u \in Users |-> None]
    /\ handler = Update("main_async", "boot", 0, FALSE, "", 0)
    /\ sent = <<>>
    /\ \E c \in BotConfigs :
        /\ settings.default_voice_id = c[1]
        /\ send_as = c[2]
    /\ picked = [u \in Users |-> None]

BotNext ==
    \/ main_async_begin
    \/ main_async_end
    \/ cmd_start_begin
    \/ cmd_start_end
    \/ cmd_help
    \/ on_callback_begin
    \/ on_callback_end
    \/ on_text_begin
    \/ on_text_end
    \/ handler_return
    \/ get_voices_sleep
    \/ get_voices_attempt
    \/ synthesize_speech_sleep
    \/ synthesize_speech_attempt

BotSpec == BotInit /\ [][BotNext]_vars

----------------------------------------------------------------------------
(* Properties *)

\* the classes of an attempt's outcome, as the specification names them
IsSuccess(r) == r.kind = "response" /\ r.status >= 200 /\ r.status <= 299
IsRetryable(r) ==
    \/ r.kind = "transport"
    \/ r.kind = "response" /\ (r.status = 429 \/ (r.status >= 500 /\ r.status <= 599))
IsClientError(r) ==
    r.kind = "response" /\ r.status >= 400 /\ r.status <= 499 /\ r.status # 429

\* a directory response the code can read: an object whose entries are objects
IsDirectory(r) ==
    /\ IsSuccess(r)
    /\ r.body.kind = "object"
    /\ \A l \in {r.body.voices, r.body.data} :
           l = None \/ \A i \in 1..Len(l[1]) : l[1][i].dict

InCall == op \in {"get_voices", "synthesize_speech"}

\* the single default voice the specification promises
DefaultOnly == << [id |-> Some(settings.default_voice_id), name |-> "Default",
                   labels |-> Some({})] >>

\* the cache was absent or stale when the current call began
MissAtEntry == entry.fetched = None \/ entry.now - entry.fetched[1].t > 600000

\* the first k delays of the schedule 0.5 s, 1 s, 2 s
Delays(k) == SubSeq(<<500, 1000, 2000>>, 1, Max(k, 0))

CeilDiv(n, d) == CHOOSE k \in 0..n : k * d >= n /\ (k = 0 \/ (k - 1) * d < n)

\* C1: get_voices never fails: whatever its HTTP attempts come back with, it
\* ends by returning a list of voices and no exception leaves it.
C1_NeverFails ==
    (op = "get_voices" /\ pc = "done") => result.kind = "return"

\* C2: with the cache absent or stale, a voice-directory request that fails
\* finally (a non-429 4xx, or four attempts ending in a retryable failure)
\* makes get_voices return exactly the one default voice, never the stale list.
C2_FallbackOnFailure ==
    ( /\ op = "get_voices"
      /\ pc = "done"
      /\ MissAtEntry
      /\ IsClientError(last_resp) \/ (requests = 4 /\ IsRetryable(last_resp)) )
    => (result.kind = "return" /\ result.value = DefaultOnly)

C2_Witness ==
    /\ op = "get_voices"
    /\ pc = "done"
    /\ entry.fetched # None
    /\ entry.now - entry.fetched[1].t > 600000
    /\ requests = 4
    /\ IsRetryable(last_resp)
    /\ result.kind = "return"
    /\ result.value # entry.fetched[1].value

\* C3: a get_voices call made within 600 s of the last successful fetch makes
\* no HTTP request and no backoff wait and returns the list that fetch stored.
C3_CacheHit ==
    ( /\ op = "get_voices"
      /\ entry.fetched # None
      /\ entry.now - entry.fetched[1].t <= 600000 )
    => ( /\ pc = "done"
         /\ requests = 0
         /\ waits = <<>>
         /\ result.kind = "return"
         /\ result.value = entry.fetched[1].value )

C3_Witness ==
    /\ op = "get_voices"
    /\ pc = "done"
    /\ entry.fetched # None
    /\ entry.now - entry.fetched[1].t = 600000
    /\ requests = 0
    /\ result.kind = "return"
    /\ Len(result.value) = 3

\* C4: a get_voices call made more than 600 s after the last successful fetch,
\* or when nothing was ever fetched, has issued at least one HTTP request by
\* the time it ends.
C4_CacheExpiry ==
    (op = "get_voices" /\ pc = "done" /\ MissAtEntry) => requests >= 1

C4_Witness ==
    /\ op = "get_voices"
    /\ pc = "done"
    /\ entry.fetched # None
    /\ entry.now - entry.fetched[1].t = 600001
    /\ requests >= 1

\* C5: one invocation makes at most 4 HTTP attempts and then ends; no wait
\* precedes attempt 1, and exactly 0.5 s, 1 s and 2 s precede attempts 2, 3
\* and 4; nothing is attempted after a success.
C5_RetrySchedule ==
    InCall =>
        /\ requests <= 4
        /\ pc = "sleep" => (requests < 4 /\ waits = Delays(requests - 1))
        /\ pc = "request" => (requests < 4 /\ waits = Delays(requests))
        /\ pc = "done" => waits = Delays(requests - 1)
        /\ IsSuccess(last_resp) => pc = "done"
        /\ pc \in {"sleep", "request"} => ENABLED Next

C5_Witness ==
    /\ op = "get_voices"
    /\ pc = "done"
    /\ requests = 4
    /\ waits = <<500, 1000, 2000>>

\* C6: an attempt that fails with a retryable outcome (429, 5xx, transport
\* error) before the fourth is followed by the next attempt, and an attempt
\* that succeeds ends the operation with that attempt's result: the response
\* body for synthesize_speech, the voices of the directory for get_voices.
C6_RetryToSuccess ==
    /\ (InCall /\ IsRetryable(last_resp) /\ requests < 4)
           => (pc \in {"sleep", "request"} /\ attempt = requests)
    /\ (op = "synthesize_speech" /\ IsSuccess(last_resp))
           => (pc = "done" /\ result.kind = "return" /\ result.value = last_resp.content)
    /\ (op = "get_voices" /\ IsDirectory(last_resp))
           => ( /\ pc = "done"
                /\ result.kind = "return"
                /\ LET items == ListOr(ListOr(last_resp.body.voices, last_resp.body.data),
                                       Some(<<>>))[1]
                   IN  IF Len(items) = 0 THEN result.value = DefaultOnly
                       ELSE /\ Len(result.value) = Len(items)
                            /\ \A i \in 1..Len(items) :
                                   result.value[i].id \in {items[i].voice_id, items[i].id} )

C6_Witness ==
    /\ op = "synthesize_speech"
    /\ pc = "done"
    /\ requests = 4
    /\ warned = 3
    /\ last_err.exc = "RateLimitError"
    /\ waits = <<500, 1000, 2000>>
    /\ result.kind = "return"
    /\ result.value = "ID3"

\* C7: an attempt answered with a 4xx other than 429 ends the invocation at
\* once, on whichever attempt: no further request, no further wait, and the
\* final failure (the default voice for get_voices, VoiceServiceError for
\* synthesize_speech).
C7_ClientErrorAborts ==
    (InCall /\ IsClientError(last_resp))
    => ( /\ pc = "done"
         /\ Len(waits) = requests - 1
         /\ op = "get_voices" => (result.kind = "return" /\ result.value = DefaultOnly)
         /\ op = "synthesize_speech"
                => (result.kind = "raise" /\ result.exc = "VoiceServiceError") )

C7_Witness ==
    /\ op = "get_voices"
    /\ pc = "done"
    /\ last_resp.status = 400
    /\ requests = 3
    /\ waits = <<500, 1000>>

\* C8: synthesize_speech with an empty text or a text longer than 5000
\* characters fails with InvalidInputError without any HTTP request or wait;
\* a text of 1 to 5000 characters goes on to the first HTTP attempt.
C8_ValidationFirst ==
    op = "synthesize_speech" =>
        /\ (args.text_len = 0 \/ args.text_len > 5000)
               => ( /\ pc = "done"
                    /\ result.kind = "raise"
                    /\ result.exc = "InvalidInputError"
                    /\ requests = 0
                    /\ waits = <<>> )
        /\ (args.text_len >= 1 /\ args.text_len <= 5000)
               => ( /\ result.exc # "InvalidInputError"
                    /\ ~(pc = "done" /\ requests = 0)
                    /\ pc = "sleep" => ENABLED synthesize_speech_sleep
                    /\ pc = "request" => ENABLED synthesize_speech_attempt )

C8_Witness ==
    /\ op = "synthesize_speech"
    /\ pc = "done"
    /\ args.text_len = 5001
    /\ result.exc = "InvalidInputError"
    /\ requests = 0

\* C9: whenever synthesize_speech with a valid text ends without audio, what
\* leaves it is a VoiceServiceError with the one fixed message, whatever the
\* last underlying error was.
C9_UniformFailure ==
    ( /\ op = "synthesize_speech"
      /\ pc = "done"
      /\ args.text_len >= 1
      /\ args.text_len <= 5000
      /\ ~IsSuccess(last_resp) )
    => ( /\ result.kind = "raise"
         /\ result.exc = "VoiceServiceError"
         /\ result.msg = "could not generate audio, try again later" )

C9_Witness ==
    /\ op = "synthesize_speech"
    /\ pc = "done"
    /\ requests = 4
    /\ last_err.exc = "RateLimitError"
    /\ result.kind = "raise"
    /\ result.exc = "VoiceServiceError"

\* C10: for a list of N items, every call reports max(1, ceil(N/8)) pages and
\* shows at most 8 items, and the item rows of pages 0 .. total_pages-1, one
\* after the other, are the items of the list, each once and in order.
C10_PaginationPartition ==
    pg_out # None =>
        /\ pg_out[1].total_pages = Max(1, CeilDiv(Len(pg_voices), 8))
        /\ Len(item_rows(pg_out[1])) <= 8
        /\ pg_walked <= pg_out[1].total_pages
        /\ pg_walked = pg_out[1].total_pages
               => /\ Len(pg_shown) = Len(pg_voices)
                  /\ \A i \in 1..Len(pg_voices) :
                         pg_shown[i][1].callback_data = <<"pick", pg_voices[i].id[1]>>

C10_Witness ==
    /\ pg_out # None
    /\ Len(pg_voices) = 17
    /\ pg_walked = 3
    /\ pg_out[1].total_pages = 3
    /\ Len(pg_shown) = 17

\* C13: a text of user u is synthesized with the voice id u picked last,
\* whatever that id is, and with the configured default when u never picked;
\* a later pick replaces an earlier one and the picks of other users do not
\* count.
C13_SelectionRoundTrip ==
    (handler.name = "on_text" /\ op = "synthesize_speech")
    => args.voice_id = IF picked[handler.user] = None THEN settings.default_voice_id
                       ELSE picked[handler.user][1]

\* C14: while the handling of one update waits in a retry backoff inside
\* get_voices or synthesize_speech, the handling of another update can start.
C14_BackoffDoesNotStall ==
    ( /\ handler.phase = "calling"
      /\ handler.name # "main_async"
      /\ pc = "sleep"
      /\ schedule[attempt + 1] # 0 )
    => ENABLED Dispatch

\* C17: when on_text handles a text message and synthesis raises
\* InvalidInputError, the reply is that error's own message; when it raises
\* any other VoiceServiceError, the reply is one fixed text, the same
\* whatever failed; either way the reply is the only thing sent: no voice,
\* audio or document.
C17_ErrorSurfacing ==
    ( /\ handler.name = "on_text"
      /\ handler.phase = "done"
      /\ handler.message
      /\ result.kind = "raise"
      /\ IsVoiceServiceError(result.exc) )
    => /\ result.exc = "InvalidInputError" => sent = <<reply_text(result.msg)>>
       /\ result.exc # "InvalidInputError" => sent = <<reply_text(OverloadedMessage)>>
       /\ \A i \in 1..Len(sent) : sent[i].kind \notin {"voice", "audio", "document"}

C17_Witness ==
    /\ handler.name = "on_text"
    /\ handler.phase = "done"
    /\ handler.message
    /\ result.kind = "raise"
    /\ result.exc = "VoiceServiceError"
    /\ requests = 4
    /\ last_resp.kind = "response"
    /\ last_resp.status = 503
    /\ sent = <<reply_text(OverloadedMessage)>>

\* C15: every list get_voices returns after a successful fetch, whatever the
\* directory response, gives each voice an id that is a non-empty string, and
\* no two voices of the list share an id.
C15_VoiceIdentity ==
    (op = "get_voices" /\ pc = "done" /\ IsDirectory(last_resp) /\ result.kind = "return")
    => LET vs == result.value
       IN  /\ \A i \in 1..Len(vs) : vs[i].id # None /\ vs[i].id[1] # ""
           /\ \A i, j \in 1..Len(vs) : i # j => vs[i].id # vs[j].id

\* the records of one level among those of the last attempt
Records(level) == {i \in 1..Len(log) : log[i].level = level}

\* C16: a get_voices invocation stores a value and the current timestamp iff
\* one of its attempts returned a successful response (the single default
\* voice when the normalized directory is empty); one that ends in final
\* failure leaves value and timestamp as they were, so the next call misses
\* the cache and issues a request again.
C16_CacheWrittenOnSuccess ==
    (op = "get_voices" /\ pc = "done")
    => /\ (cache # entry.cache) <=> IsSuccess(last_resp)
       /\ IsSuccess(last_resp)
              => /\ result.kind = "return"
                 /\ cache = [value |-> Some(result.value), ts |-> now]
       /\ (IsRetryable(last_resp) \/ IsClientError(last_resp))
              => /\ cache = entry.cache
                 /\ VoicesCache_get(cache, now) = None

\* C18: every failed attempt of get_voices and synthesize_speech, whatever
\* its class (429, 5xx, other 4xx, transport error), emits one warning record
\* carrying the attempt number, and a final failure emits exactly one
\* error record after its last attempt.
C18_FailureLogging ==
    (InCall /\ requests >= 1 /\ (IsRetryable(last_resp) \/ IsClientError(last_resp)))
    => /\ Cardinality(Records("warning")) = 1
       /\ \A i \in Records("warning") : log[i].n = requests - 1
       /\ warned = requests
       /\ pc = "done" => /\ Cardinality(Records("error")) = 1
                         /\ log[Len(log)].level = "error"

\* C19: every list get_voices returns, from the cache, from a fresh fetch or
\* as the fallback, has at least one entry, each with the keys id, name and
\* labels; and the cached value is absent or a non-empty list.
C19_NonEmptyResult ==
    /\ (op = "get_voices" /\ pc = "done" /\ result.kind = "return")
           => /\ Len(result.value) >= 1
              /\ \A i \in 1..Len(result.value) :
                     DOMAIN result.value[i] = {"id", "name", "labels"}
    /\ cache.value = None \/ Len(cache.value[1]) >= 1

C19_Witness ==
    /\ op = "get_voices"
    /\ pc = "done"
    /\ IsDirectory(last_resp)
    /\ last_resp.body = Body("object", None, None)
    /\ result = Return(DefaultOnly)
    /\ cache.value = Some(DefaultOnly)

\* the navigation row of the page shown, and the controls in it
NavRow == pg_out[1].buttons[Len(pg_out[1].buttons)]
Controls(label) == {b \in 1..Len(NavRow) : NavRow[b].text = Some(label)}
PageTargets ==
    {PyInt(AfterColon(callback_text(NavRow[b].callback_data))) :
         b \in {c \in 1..Len(NavRow) : NavRow[c].callback_data[1] = "page"}}

\* C11: for any list and any page index the last row holds a "previous"
\* control iff page_index > 0, a "next" control iff items remain beyond the
\* page (page_index*8 + 8 < len(items)), and exactly one "refresh" control.
C11_NavigationRow ==
    pg_out # None =>
        /\ (Controls("prev") # {}) <=> (pg_page > 0)
        /\ (Controls("next") # {}) <=> (pg_page * 8 + 8 < Len(pg_voices))
        /\ Cardinality(Controls("refresh")) = 1

\* C12: for a page index outside 0 .. total_pages-1, negative or too large,
\* no item row is emitted and the navigation row with its refresh control
\* still is.
C12_OutOfRangePage ==
    (pg_out # None /\ (pg_page < 0 \/ pg_page >= pg_out[1].total_pages))
    => ( /\ Len(item_rows(pg_out[1])) = 0
         /\ Len(pg_out[1].buttons) = 1
         /\ Controls("refresh") # {} )

\* C20: on a non-empty list, a page index within 0 .. total_pages-1 shows at
\* least one item and its previous/next controls point within
\* 0 .. total_pages-1; so pages reached from page 0 by previous/next presses
\* are all valid and non-empty.
C20_NavigationClosure ==
    (pg_out # None /\ Len(pg_voices) >= 1)
    => /\ (pg_page >= 0 /\ pg_page < pg_out[1].total_pages)
              => /\ Len(item_rows(pg_out[1])) >= 1
                 /\ \A n \in PageTargets : n >= 0 /\ n < pg_out[1].total_pages
       /\ pg_nav => (pg_page >= 0 /\ pg_page < pg_out[1].total_pages)

C20_Witness ==
    /\ pg_out # None
    /\ Len(pg_voices) = 17
    /\ pg_nav
    /\ pg_walked = 0
    /\ pg_page = 2
    /\ PageTargets = {1}

====
